---- MODULE Spec2Model ----
(***************************************************************************)
(* Model of src/app.py: one global Firefox driver handle (`driver`), one   *)
(* non-reentrant threading.Lock (`driver_lock`), and the operations that   *)
(* use them: init_driver, the lifespan shutdown block, and the request     *)
(* handlers.                                                               *)
(*                                                                         *)
(* Every operation is a sequence of steps of one caller:                   *)
(*   Call     the code before `with driver_lock:` (argument validation and *)
(*            the unlocked `driver is None` test)                          *)
(*   Acquire  `with driver_lock:` entered                                  *)
(*   body     the code inside the `with` block up to and including the     *)
(*            release of the lock on exit; the lock is held throughout, so *)
(*            the body is one step (init_driver is two: the global is      *)
(*            assigned in the middle of its body and the unlocked tests of *)
(*            other callers can read it)                                   *)
(* Callers interleave between steps, as threads sharing driver_lock do;    *)
(* a schedule that runs each handler to its end before the next starts is  *)
(* one of these interleavings.  Every WebDriver call may raise; a call     *)
(* that raises has had no effect on the browser, except quit(), which ends *)
(* the process whether or not it raises.  A failed webdriver.Firefox()     *)
(* leaves no process behind.                                               *)
(*                                                                         *)
(* Three specifications share the steps:                                   *)
(*   Spec      callers interleaving as threads do; take_screenshot and     *)
(*             navigate_to_url with one run for each way they end          *)
(*   FairSpec  Spec with the fairness that progress rests on               *)
(*   SeqSpec   one request at a time, as the event loop runs the handlers; *)
(*             take_screenshot and navigate_to_url with every combination  *)
(*             of raising calls and every address                          *)
(***************************************************************************)
EXTENDS Naturals, Integers, Sequences, FiniteSets, TLC

\* ---------------------------------------------------------------- bounds
NumProcs == 2
MaxTabs == 3
MaxLaunch == 2

Procs == 1..NumProcs
TabIds == 1..MaxTabs
\* A request's tab handle: 0 is "handle omitted" (None or the empty string).
ReqHandles == 0..MaxTabs
\* `driver = None`
None == 0

\* The window the browser is launched with and set to (lines 151, 168).
DefaultSize == <<2560, 1440>>
\* The size used for a page that reports no extent (lines 310-313).
FallbackSize == <<1920, 1080>>
\* document.body.scrollWidth and scrollHeight as pages report them: an
\* empty extent and one taller than the window.
PageSizes == {<<0, 0>>, <<1280, 4000>>}
\* No browser, no window.
NoSize == <<0, 0>>

VARIABLES
    driver,     \* the global `driver`: None or the pid of the process it drives
    locked,     \* driver_lock is held
    alive,      \* pids of the browser processes this program launched, still running
    launched,   \* number of browser processes launched so far
    strays,     \* an orphaned geckodriver.exe of a prior run is running
    handles,    \* driver.window_handles, in the driver's enumeration order
    cur,        \* the driver's current browsing context (a closed one after close())
    nextTab,    \* number of tab handles the running browser has handed out
    winSize,    \* the browser window's size, <<width, height>>
    pc,         \* per caller: where it is in its operation
    last        \* the return made by the last step, NoReturn if it made none

vars == <<driver, locked, alive, launched, strays, handles, cur, nextTab, winSize,
          pc, last>>

\* ------------------------------------------------------------ operations
LockedOps == {"start", "stop", "status"}
GuardedOps == {"screenshot", "navigate", "open", "list", "switch", "close", "script"}
Ops == LockedOps \cup GuardedOps

\* ------------------------------------------------------------- failures
\* Outcomes a caller sees.  The HTTPException ones carry a status code.
HTTPKinds == {"NotRunning", "MissingParam", "TabNotFound", "LastTabError",
              "OperationFailed", "ConnFailed", "CaptureFailed"}

Status(kind) ==
    CASE kind = "OK" -> 200
      [] kind = "NotRunning" -> 422
      [] kind = "TabNotFound" -> 404
      [] kind \in {"MissingParam", "LastTabError"} -> 400
      [] OTHER -> 500

\* `except Exception as e: raise HTTPException(status_code=500, ...)`, the only
\* handler of the tab operations, execute_script and open_new_tab: every
\* exception raised in the body, HTTPException included, leaves as the 500.
ExceptAll(raised) == "OperationFailed"

\* `except HTTPException: raise` before `except Exception` (with_browser,
\* take_screenshot): an HTTPException leaves unchanged.
ExceptHTTPFirst(raised) ==
    IF raised \in HTTPKinds THEN raised ELSE "OperationFailed"

\* --------------------------------------------------------------- helpers
Range(s) == {s[i] : i \in 1..Len(s)}

Remove(s, x) == SelectSeq(s, LAMBDA y : y # x)

\* The process behind the handle answers commands.
DriverLive == driver # None /\ driver \in alive

\* Commands addressed to the current browsing context (title, current_url,
\* current_window_handle, execute_script, get, close) need it to be open.
CtxOK == DriverLive /\ cur \in Range(handles)

\* A caller is idle, has reached `with driver_lock:` in init_driver, the
\* shutdown block or get_status ("waitL") or in a handler whose
\* `driver is None` test passed ("waitG"), holds the lock there ("csL",
\* "csG"), or holds it in init_driver with `driver` assigned ("init2").
\* A handler reads its request only inside the lock, so the request of a
\* waiting caller is drawn when its body runs.
PCs == {"idle", "waitL", "waitG", "csL", "csG", "init2"}

InCS(p) == pc[p] \in {"csL", "csG", "init2"}

\* What a return is compared with: the state its step started in.
Snap == [driver |-> driver, alive |-> alive, launched |-> launched,
         strays |-> strays, handles |-> handles, cur |-> cur,
         winSize |-> winSize]

NoReturn == [op |-> "none", arg |-> 0, at |-> "none", raised |-> "none",
             kind |-> "none", ret |-> 0, img |-> "none", faults |-> {},
             url |-> <<>>, target |-> <<>>,
             pre |-> [driver |-> None, alive |-> {}, launched |-> 0,
                      strays |-> FALSE, handles |-> <<>>, cur |-> 0,
                      winSize |-> NoSize]]

TypeOK ==
    /\ driver \in 0..MaxLaunch
    /\ locked \in BOOLEAN
    /\ alive \subseteq 1..MaxLaunch
    /\ launched \in 0..MaxLaunch
    /\ strays \in BOOLEAN
    /\ handles \in Seq(TabIds)
    /\ cur \in 0..MaxTabs
    /\ nextTab \in 0..MaxTabs
    /\ winSize \in {NoSize, DefaultSize, FallbackSize} \cup PageSizes
    /\ pc \in [Procs -> PCs]
    /\ last.op \in Ops \cup {"none"}
    /\ last.kind \in HTTPKinds \cup {"none", "OK", "LaunchFailed", "Unhandled"}

\* Module load (lines 64-65): no driver, a free lock.  An orphaned driver
\* process of an earlier run may or may not exist.
Init ==
    /\ driver = None
    /\ locked = FALSE
    /\ alive = {}
    /\ launched = 0
    /\ strays \in BOOLEAN
    /\ handles = <<>>
    /\ cur = 0
    /\ nextTab = 0
    /\ winSize = NoSize
    /\ pc = [p \in Procs |-> "idle"]
    /\ last = NoReturn

\* The caller returns (or raises) to its own caller: `last` records the
\* request, where the caller was ("idle": before the lock; otherwise inside
\* it), the exception raised inside the handler ("none" when none), the
\* outcome that leaves the handler, the value returned and the state the
\* step started in.  The state in which `last` holds a return is the state
\* that return left behind.
Return(p, o, a, raised, kind, ret) ==
    /\ pc' = [pc EXCEPT ![p] = "idle"]
    /\ last' = [op |-> o, arg |-> a, at |-> pc[p], raised |-> raised,
                kind |-> kind, ret |-> ret, img |-> "none", faults |-> {},
                url |-> <<>>, target |-> <<>>, pre |-> Snap]

\* The same, for the handlers whose calls are named: `faults` are the
\* calls that raised, `img` the capture whose bytes the response carries,
\* `url` the address the request gave and `target` the address handed to
\* driver.get.
ReturnOf(p, o, raised, kind, img, faults, url, target) ==
    /\ pc' = [pc EXCEPT ![p] = "idle"]
    /\ last' = [op |-> o, arg |-> 0, at |-> pc[p], raised |-> raised,
                kind |-> kind, ret |-> 0, img |-> img, faults |-> faults,
                url |-> url, target |-> target, pre |-> Snap]

\* A block that keeps the lock on its way out.
ReleaseNever == locked' = locked

\* Leaving the `with driver_lock:` block, by return or by exception.
Release == locked' = FALSE

\* ------------------------------------------------- the unlocked prologue
\* init_driver, the shutdown block and get_status go straight to the lock.
CallLocked(p) ==
    /\ pc[p] = "idle"
    /\ pc' = [pc EXCEPT ![p] = "waitL"]
    /\ last' = NoReturn
    /\ UNCHANGED <<driver, locked, alive, launched, strays, handles, cur, nextTab, winSize>>

\* switch_tab (457-458) and execute_script (517-522) reject an empty
\* argument before they look at the driver.
CallMissingParam(p) ==
    /\ pc[p] = "idle"
    /\ UNCHANGED <<driver, locked, alive, launched, strays, handles, cur, nextTab, winSize>>
    /\ \E o \in {"switch", "script"} :
        Return(p, o, 0, "MissingParam", "MissingParam", 0)

\* The arguments that pass a handler's validation: a non-empty handle for
\* switch_tab, any handle or none for close_tab, a non-empty script (1) for
\* execute_script, a target (1) or none (0) for open_new_tab.
Args(o) ==
    CASE o = "switch" -> TabIds
      [] o = "close" -> ReqHandles
      [] o = "script" -> {1}
      [] o = "open" -> {0, 1}
      [] OTHER -> {0}

\* The handlers' `if driver is None:`, read without the lock.
NotStartedUnchecked == FALSE

NotStarted == driver = None

\* `if driver is None: raise HTTPException(status_code=422, ...)`.
CallNotRunning(p) ==
    /\ pc[p] = "idle"
    /\ NotStarted
    /\ UNCHANGED <<driver, locked, alive, launched, strays, handles, cur, nextTab, winSize>>
    /\ \E o \in GuardedOps : \E a \in Args(o) :
        Return(p, o, a, "NotRunning", "NotRunning", 0)

\* The test passed: the caller goes on to `with driver_lock:`.
CallGuarded(p) ==
    /\ pc[p] = "idle"
    /\ ~NotStarted
    /\ pc' = [pc EXCEPT ![p] = "waitG"]
    /\ last' = NoReturn
    /\ UNCHANGED <<driver, locked, alive, launched, strays, handles, cur, nextTab, winSize>>

\* threading.Lock.acquire() succeeds only on a lock nobody holds.
LockFreeAlways == TRUE

LockFree == ~locked

\* `with driver_lock:` entered; the caller blocks while the lock is held.
Acquire(p) ==
    /\ pc[p] \in {"waitL", "waitG"}
    /\ LockFree
    /\ locked' = TRUE
    /\ pc' = [pc EXCEPT ![p] = IF pc[p] = "waitL" THEN "csL" ELSE "csG"]
    /\ last' = NoReturn
    /\ UNCHANGED <<driver, alive, launched, strays, handles, cur, nextTab, winSize>>

\* --------------------------------------------------------- init_driver
\* The browser's state once the driver no longer drives a process.
NoBrowser ==
    /\ handles' = <<>>
    /\ cur' = 0
    /\ nextTab' = 0
    /\ winSize' = NoSize

\* `if driver is None:` (line 136).
MayLaunchAlways == TRUE

MayLaunch == driver = None

\* A handle exists: the `with` block does nothing.
InitNoop(p) ==
    /\ pc[p] = "csL"
    /\ ~MayLaunch
    /\ Release
    /\ UNCHANGED <<driver, alive, launched, strays, handles, cur, nextTab, winSize>>
    /\ Return(p, "start", 0, "none", "OK", 0)

\* taskkill (139-145): it ends the orphans, or it times out or is missing,
\* which is ignored.
KillStrays == strays' \in {FALSE, strays}

\* Lines 139-162, up to the assignment of `driver`: the driver process is
\* created with one window, which is current.
InitLaunch(p) ==
    /\ pc[p] = "csL"
    /\ MayLaunch
    /\ launched < MaxLaunch
    /\ KillStrays
    /\ launched' = launched + 1
    /\ driver' = launched'
    /\ alive' = alive \cup {launched'}
    /\ handles' = <<1>>
    /\ cur' = 1
    /\ nextTab' = 1
    /\ winSize' = DefaultSize
    /\ pc' = [pc EXCEPT ![p] = "init2"]
    /\ last' = NoReturn
    /\ UNCHANGED locked

\* Lines 139-162 raise before `driver` is assigned (taskkill raises another
\* error, the geckodriver download or webdriver.Firefox fails): the handler
\* at 181-190 finds driver None and re-raises.
InitLaunchFails(p) ==
    /\ pc[p] = "csL"
    /\ MayLaunch
    /\ KillStrays
    /\ Release
    /\ UNCHANGED <<driver, alive, launched, handles, cur, nextTab, winSize>>
    /\ Return(p, "start", 0, "DriverError", "LaunchFailed", 0)

\* Lines 165-180 all succeed.
InitReady(p) ==
    /\ pc[p] = "init2"
    /\ Release
    /\ UNCHANGED <<driver, alive, launched, strays, handles, cur, nextTab, winSize>>
    /\ Return(p, "start", 0, "none", "OK", 0)

InitCleanupKeepsHandle ==
    /\ alive' = alive \ {driver}
    /\ driver' = driver
    /\ NoBrowser

\* Lines 184-189: `driver.quit()` in a try/except that ignores its error,
\* then `driver = None`.
InitCleanup ==
    /\ alive' = alive \ {driver}
    /\ driver' = None
    /\ NoBrowser

\* One of lines 165-178 raises (timeouts, window size, the default page,
\* the readiness wait): lines 181-190.
InitConfigureFails(p) ==
    /\ pc[p] = "init2"
    /\ InitCleanup
    /\ Release
    /\ UNCHANGED <<launched, strays>>
    /\ Return(p, "start", 0, "DriverError", "LaunchFailed", 0)

\* -------------------------------------------- lifespan, after the yield
\* `if driver is not None:` (line 44).
MayQuit == driver # None

ShutdownNoop(p) ==
    /\ pc[p] = "csL"
    /\ ~MayQuit
    /\ Release
    /\ UNCHANGED <<driver, alive, launched, strays, handles, cur, nextTab, winSize>>
    /\ Return(p, "stop", 0, "none", "OK", 0)

ShutdownQuitKeepsHandle(p) ==
    /\ pc[p] = "csL"
    /\ MayQuit
    /\ alive' = alive \ {driver}
    /\ driver' = driver
    /\ NoBrowser
    /\ Release
    /\ UNCHANGED <<launched, strays>>
    /\ Return(p, "stop", 0, "none", "OK", 0)

\* Lines 45-46: quit() returns and the global is cleared.
ShutdownQuit(p) ==
    /\ pc[p] = "csL"
    /\ MayQuit
    /\ alive' = alive \ {driver}
    /\ driver' = None
    /\ NoBrowser
    /\ Release
    /\ UNCHANGED <<launched, strays>>
    /\ Return(p, "stop", 0, "none", "OK", 0)

\* The error leaves the block and the lock stays taken.
ShutdownQuitRaisesHolding(p) ==
    /\ pc[p] = "csL"
    /\ MayQuit
    /\ alive' = alive \ {driver}
    /\ NoBrowser
    /\ UNCHANGED <<driver, locked, launched, strays>>
    /\ Return(p, "stop", 0, "DriverError", "Unhandled", 0)

\* Line 45 raises: line 46 is skipped and the error leaves the block.
ShutdownQuitRaises(p) ==
    /\ pc[p] = "csL"
    /\ MayQuit
    /\ alive' = alive \ {driver}
    /\ NoBrowser
    /\ Release
    /\ UNCHANGED <<driver, launched, strays>>
    /\ Return(p, "stop", 0, "DriverError", "Unhandled", 0)

\* ------------------------------------------------------------ get_status
StatusBody(p) ==
    /\ pc[p] = "csL"
    /\ Release
    /\ UNCHANGED <<driver, alive, launched, strays, handles, cur, nextTab, winSize>>
    /\ \/ /\ driver = None
          /\ Return(p, "status", 0, "none", "OK", 0)
       \/ /\ CtxOK
          /\ Return(p, "status", 0, "none", "OK", Len(handles))
       \/ /\ driver # None
          /\ Return(p, "status", 0, "DriverError", "Unhandled", 0)

\* ------------------------------------------------------------ switch_tab
\* Lines 467-480.  The body raises 404 for a handle that is not open; that
\* and every driver error leave through `except Exception` (478-480).
SwitchTabBody(p) ==
    /\ pc[p] = "csG"
    /\ Release
    /\ UNCHANGED <<driver, alive, launched, strays, handles, nextTab, winSize>>
    /\ \E h \in Args("switch") :
        \/ \* driver.window_handles or switch_to.window raises
           /\ cur' = cur
           /\ Return(p, "switch", h, "DriverError", ExceptAll("DriverError"), 0)
        \/ \* line 469-470
           /\ DriverLive /\ h \notin Range(handles)
           /\ cur' = cur
           /\ Return(p, "switch", h, "TabNotFound", ExceptAll("TabNotFound"), 0)
        \/ \* switched; reading title or current_url raises
           /\ DriverLive /\ h \in Range(handles)
           /\ cur' = h
           /\ Return(p, "switch", h, "DriverError", ExceptAll("DriverError"), 0)
        \/ \* lines 472-477
           /\ DriverLive /\ h \in Range(handles)
           /\ cur' = h
           /\ Return(p, "switch", h, "none", "OK", 0)

\* ------------------------------------------------------------- close_tab
\* `request.handle or driver.current_window_handle` (line 494).
TabHandle(h) == IF h # 0 THEN h ELSE cur

\* Line 505: the tab made current after a close.
NextCurrentLast(hs) == hs[Len(hs)]

NextCurrent(hs) == hs[1]

\* Lines 492-512.
CloseTabBody(p) ==
    /\ pc[p] = "csG"
    /\ Release
    /\ UNCHANGED <<driver, alive, launched, strays, nextTab, winSize>>
    /\ \E h \in Args("close") :
        \/ \* current_window_handle, window_handles or switch_to.window raises
           /\ UNCHANGED <<handles, cur>>
           /\ Return(p, "close", h, "DriverError", ExceptAll("DriverError"), 0)
        \/ \* lines 496-497
           /\ DriverLive /\ (h # 0 \/ CtxOK)
           /\ TabHandle(h) \notin Range(handles)
           /\ UNCHANGED <<handles, cur>>
           /\ Return(p, "close", h, "TabNotFound", ExceptAll("TabNotFound"), 0)
        \/ \* lines 499-500
           /\ DriverLive /\ (h # 0 \/ CtxOK)
           /\ TabHandle(h) \in Range(handles)
           /\ Len(handles) = 1
           /\ UNCHANGED <<handles, cur>>
           /\ Return(p, "close", h, "LastTabError", ExceptAll("LastTabError"), 0)
        \/ \* line 502 done, driver.close() raises
           /\ DriverLive /\ (h # 0 \/ CtxOK)
           /\ TabHandle(h) \in Range(handles)
           /\ Len(handles) # 1
           /\ handles' = handles
           /\ cur' = TabHandle(h)
           /\ Return(p, "close", h, "DriverError", ExceptAll("DriverError"), 0)
        \/ \* lines 502-503 done, window_handles or switch_to.window of 505 raises
           /\ DriverLive /\ (h # 0 \/ CtxOK)
           /\ TabHandle(h) \in Range(handles)
           /\ Len(handles) # 1
           /\ handles' = Remove(handles, TabHandle(h))
           /\ cur' = TabHandle(h)
           /\ Return(p, "close", h, "DriverError", ExceptAll("DriverError"), 0)
        \/ \* lines 502-505 done, window_handles of 508 raises
           /\ DriverLive /\ (h # 0 \/ CtxOK)
           /\ TabHandle(h) \in Range(handles)
           /\ Len(handles) # 1
           /\ handles' = Remove(handles, TabHandle(h))
           /\ cur' = NextCurrent(handles')
           /\ Return(p, "close", h, "DriverError", ExceptAll("DriverError"), 0)
        \/ \* lines 502-509
           /\ DriverLive /\ (h # 0 \/ CtxOK)
           /\ TabHandle(h) \in Range(handles)
           /\ Len(handles) # 1
           /\ handles' = Remove(handles, TabHandle(h))
           /\ cur' = NextCurrent(handles')
           /\ Return(p, "close", h, "none", "OK", Len(handles'))

\* ------------------------------------------------------------- list_tabs
\* Lines 430-452: the loop switches to every handle in turn, and line 444
\* switches back.  An exception leaves from wherever the loop stood.
ListTabsBody(p) ==
    /\ pc[p] = "csG"
    /\ Release
    /\ UNCHANGED <<driver, alive, launched, strays, handles, nextTab, winSize>>
    /\ \/ \* current_window_handle or window_handles raises
          /\ cur' = cur
          /\ Return(p, "list", 0, "DriverError", ExceptAll("DriverError"), 0)
       \/ \* a call of the loop, or line 444, raises after a switch
          /\ CtxOK
          /\ \E c \in Range(handles) :
              /\ cur' = c
              /\ Return(p, "list", 0, "DriverError", ExceptAll("DriverError"), 0)
       \/ \* lines 432-449
          /\ CtxOK
          /\ cur' = cur
          /\ Return(p, "list", 0, "none", "OK", Len(handles))

\* ---------------------------------------------------------- open_new_tab
\* window.open('') (line 401): the browser adds a window with a new handle
\* at the end of window_handles.
NewTab == nextTab + 1

\* A switch to the first window of the list.
OldestTab(hs) == hs[1]

\* `driver.window_handles[-1]` (line 403).
NewestTab(hs) == hs[Len(hs)]

\* Lines 399-418.  a = 1: the request names a target other than about:blank.
OpenTabBody(p) ==
    /\ pc[p] = "csG"
    /\ Release
    /\ UNCHANGED <<driver, alive, launched, strays, winSize>>
    /\ \E a \in Args("open") :
        \/ \* window.open raises
           /\ UNCHANGED <<handles, cur, nextTab>>
           /\ Return(p, "open", a, "DriverError", ExceptAll("DriverError"), 0)
        \/ \* opened; window_handles or switch_to.window of 403 raises
           /\ CtxOK /\ nextTab < MaxTabs
           /\ handles' = Append(handles, NewTab)
           /\ nextTab' = NewTab
           /\ cur' = cur
           /\ Return(p, "open", a, "DriverError", ExceptAll("DriverError"), 0)
        \/ \* opened and switched; get, title or current_window_handle raises
           /\ CtxOK /\ nextTab < MaxTabs
           /\ handles' = Append(handles, NewTab)
           /\ nextTab' = NewTab
           /\ cur' = NewestTab(handles')
           /\ Return(p, "open", a, "DriverError", ExceptAll("DriverError"), 0)
        \/ \* lines 401-415
           /\ CtxOK /\ nextTab < MaxTabs
           /\ handles' = Append(handles, NewTab)
           /\ nextTab' = NewTab
           /\ cur' = NewestTab(handles')
           /\ Return(p, "open", a, "none", "OK", cur')

\* -------------------------------------------------------- execute_script
\* Lines 532-572.  The serialisation of the result (538-564) cannot raise
\* out of the handler.  Scripts here read the page and leave the windows
\* alone.
ExecuteScriptBody(p) ==
    /\ pc[p] = "csG"
    /\ Release
    /\ UNCHANGED <<driver, alive, launched, strays, handles, cur, nextTab, winSize>>
    /\ \/ Return(p, "script", 1, "DriverError", ExceptAll("DriverError"), 0)
       \/ /\ CtxOK
          /\ Return(p, "script", 1, "none", "OK", 0)

\* ------------------------------------------------------- navigate_to_url
\* Addresses are strings, one character an element.
Http == <<"h", "t", "t", "p", ":", "/", "/">>
Https == <<"h", "t", "t", "p", "s", ":", "/", "/">>

\* The addresses requests carry (URLRequest.url, any str): a bare host, the
\* two prefixes with and without a host, and strings that almost have one.
Urls ==
    {<<>>, <<"a">>, Http \o <<"a">>, Https \o <<"a">>, Http, Https,
     <<"h", "t", "t", "p", ":", "/", "a">>,
     <<"H", "T", "T", "P", ":", "/", "/", "a">>,
     <<"a">> \o Http \o <<"a">>}

\* str.startswith
StartsWith(s, prefix) ==
    /\ Len(s) >= Len(prefix)
    /\ SubSeq(s, 1, Len(prefix)) = prefix

\* A format_url that knows 'http://' only.
format_url_http_only(url) ==
    IF ~StartsWith(url, Http) THEN Https \o url ELSE url

\* Lines 75-79.
format_url(url) ==
    IF ~(StartsWith(url, Http) \/ StartsWith(url, Https))
    THEN Https \o url
    ELSE url

\* The ways the calls of navigate_to_url and wait_for_page_load raise:
\*   get_timeout, get_error        driver.get                  (line 368)
\*   ready_timeout, ready_error    the document.readyState wait (242-244)
\*   images_timeout, images_error  the images wait              (248-252)
\*   read_timeout, read_error      driver.title, driver.current_url (375-376)
\*   reread_error                  the same reads in the handler (382-383)
NavCalls == {"get_timeout", "get_error", "ready_timeout", "ready_error",
             "images_timeout", "images_error", "read_timeout", "read_error",
             "reread_error"}

\* How a call ended.
Outcome(F, call_timeout, call_error) ==
    IF call_error \in F THEN "error"
    ELSE IF call_timeout \in F THEN "timeout"
    ELSE "ok"

\* A wait_for_page_load without its handlers.
wait_for_page_load_raising(F) ==
    IF Outcome(F, "ready_timeout", "ready_error") # "ok"
    THEN Outcome(F, "ready_timeout", "ready_error")
    ELSE Outcome(F, "images_timeout", "images_error")

\* Lines 239-258: a timeout and any other error of the two waits are logged
\* and dropped.
wait_for_page_load(F) == "ok"

\* Lines 378-384: the handler of TimeoutException reads title and url again;
\* an error of these reads has no handler.
OnTimeout(F) ==
    IF "reread_error" \in F
    THEN [raised |-> "Timeout", kind |-> "Unhandled"]
    ELSE [raised |-> "Timeout", kind |-> "OK"]

\* Lines 385-387.
OnError == [raised |-> "DriverError", kind |-> "OperationFailed"]

\* Lines 364-387 after format_url: how the request ends when the calls in
\* F raise.
NavEnd(F) ==
    LET get == Outcome(F, "get_timeout", "get_error")
        wait == wait_for_page_load(F)
        read == Outcome(F, "read_timeout", "read_error")
    IN  IF get = "error" THEN OnError
        ELSE IF get = "timeout" THEN OnTimeout(F)
        ELSE IF wait = "error" THEN OnError
        ELSE IF wait = "timeout" THEN OnTimeout(F)
        ELSE IF read = "error" THEN OnError
        ELSE IF read = "timeout" THEN OnTimeout(F)
        ELSE [raised |-> "none", kind |-> "OK"]

\* A call raises one exception, and only a call that is made can raise.
NavFaults ==
    {F \in SUBSET NavCalls :
        LET get == Outcome(F, "get_timeout", "get_error")
            ready == Outcome(F, "ready_timeout", "ready_error")
            read == Outcome(F, "read_timeout", "read_error")
        IN  /\ ~{"get_timeout", "get_error"} \subseteq F
            /\ ~{"ready_timeout", "ready_error"} \subseteq F
            /\ ~{"images_timeout", "images_error"} \subseteq F
            /\ ~{"read_timeout", "read_error"} \subseteq F
            /\ get # "ok" =>
                 F \cap {"ready_timeout", "ready_error", "images_timeout",
                         "images_error", "read_timeout", "read_error"} = {}
            /\ ready # "ok" => F \cap {"images_timeout", "images_error"} = {}
            /\ "reread_error" \in F => (get = "timeout" \/ read = "timeout")}

\* One fault set for each way navigate_to_url ends.
NavFaultsByOutcome ==
    {{}, {"get_error"}, {"get_timeout"}, {"get_timeout", "reread_error"}}

\* Lines 363-387, with the address drawn from Us and the faults from Fs.
\* Loading a page leaves the windows as they are.
Navigate(p, Us, Fs) ==
    /\ pc[p] = "csG"
    /\ Release
    /\ UNCHANGED <<driver, alive, launched, strays, handles, cur, nextTab, winSize>>
    /\ \E url \in Us, F \in Fs :
        /\ CtxOK \/ "get_error" \in F
        /\ ReturnOf(p, "navigate", NavEnd(F).raised, NavEnd(F).kind, "none",
                    F, url, format_url(url))

\* navigate_to_url among concurrent callers: one run for each way it ends.
NavigateBody(p) == Navigate(p, {<<"a">>}, NavFaultsByOutcome)

\* navigate_to_url with every address and every combination of faults.
NavigateRun(p) == Navigate(p, Urls, NavFaults)

\* ------------------------------------------------------- take_screenshot
\* The calls of take_screenshot and take_full_page_screenshot_safely that
\* can raise, in the order they are made:
\*   probe       driver.current_url                         (line 208)
\*   wait        wait_for_page_load_safely                  (line 214)
\*   cap1        get_screenshot_as_png of take_screenshot   (line 218)
\*   cap2        the backup capture                         (line 302)
\*   introspect  the page and window dimensions             (lines 306-319)
\*   resize      set_window_size to the page's extent       (line 323)
\*   cap3        the capture of the resized window          (line 327)
\*   restore     set_window_size back, after the capture    (line 330)
\*   restore2    set_window_size back, in the handler       (line 337)
\*   cap4        the capture of last resort                 (line 348)
\*   write       creating the directory and the file        (lines 224-230)
ShotCalls == {"probe", "wait", "cap1", "cap2", "introspect", "resize", "cap3",
              "restore", "restore2", "cap4", "write"}

\* Lines 310-313: a page that reports no extent is captured at a fixed size.
TargetSize(page) ==
    IF page[1] <= 0 \/ page[2] <= 0 THEN FallbackSize ELSE page

\* A readiness wait that lets its error out.
wait_for_page_load_unsafely(F) == IF "wait" \in F THEN "raised" ELSE "done"

\* Lines 260-275: every error of the readiness wait is logged and dropped.
wait_for_page_load_safely(F) == "done"

\* take_full_page_screenshot, the variant without a backup capture and
\* without handlers (lines 277-296).
take_full_page_screenshot(F, size, page) ==
    IF "introspect" \in F \/ "resize" \in F THEN [img |-> "none", size |-> size]
    ELSE IF "cap3" \in F \/ "restore" \in F
         THEN [img |-> "none", size |-> TargetSize(page)]
    ELSE [img |-> "full", size |-> size]

\* The handler of 333-340 without lines 335-339.
take_full_page_screenshot_unrestored(F, size, page) ==
    IF "cap2" \in F
    THEN [img |-> IF "cap4" \in F THEN "none" ELSE "final", size |-> size]
    ELSE IF "introspect" \in F \/ "resize" \in F
         THEN [img |-> "backup", size |-> size]
    ELSE IF "cap3" \in F \/ "restore" \in F
         THEN [img |-> "backup", size |-> TargetSize(page)]
    ELSE [img |-> "full", size |-> size]

\* Lines 298-351, given the calls F that raise, the window's size and the
\* extent the page reports: the image returned ("none": line 351 raises)
\* and the window's size afterwards.
take_full_page_screenshot_safely(F, size, page) ==
    IF "cap2" \in F
    THEN \* 344-351
         [img |-> IF "cap4" \in F THEN "none" ELSE "final", size |-> size]
    ELSE IF "introspect" \in F
         THEN \* 341-343
              [img |-> "backup", size |-> size]
    ELSE IF "resize" \in F
         THEN \* 333-340, the window was not resized
              [img |-> "backup", size |-> size]
    ELSE IF "cap3" \in F \/ "restore" \in F
         THEN \* 333-340, the window is at the page's extent
              [img |-> "backup",
               size |-> IF "restore2" \in F THEN TargetSize(page) ELSE size]
    ELSE \* 323-332
         [img |-> "full", size |-> size]

\* Lines 216-222: the capture, or the fallback when it raises.
Capture(F, size, page) ==
    IF "cap1" \in F
    THEN take_full_page_screenshot_safely(F, size, page)
    ELSE [img |-> "viewport", size |-> size]

\* The calls a run with faults F gets to make.
Executed(F) ==
    {"probe"}
    \cup (IF "probe" \in F THEN {} ELSE {"wait", "cap1"})
    \cup (IF "probe" \in F \/ "cap1" \notin F THEN {} ELSE {"cap2"})
    \cup (IF {"probe", "cap2"} \cap F # {} \/ "cap1" \notin F
          THEN {} ELSE {"introspect"})
    \cup (IF {"probe", "cap2", "introspect"} \cap F # {} \/ "cap1" \notin F
          THEN {} ELSE {"resize"})
    \cup (IF {"probe", "cap2", "introspect", "resize"} \cap F # {}
             \/ "cap1" \notin F
          THEN {} ELSE {"cap3"})
    \cup (IF {"probe", "cap2", "introspect", "resize", "cap3"} \cap F # {}
             \/ "cap1" \notin F
          THEN {} ELSE {"restore"})
    \cup (IF {"probe", "cap2", "introspect"} \cap F = {} /\ "cap1" \in F
             /\ {"resize", "cap3", "restore"} \cap F # {}
          THEN {"restore2"} ELSE {})
    \cup (IF "probe" \notin F /\ "cap1" \in F /\ "cap2" \in F
          THEN {"cap4"} ELSE {})
    \cup (IF "probe" \notin F
             /\ ("cap1" \notin F \/ "cap2" \notin F \/ "cap4" \notin F)
          THEN {"write"} ELSE {})

\* Only a call that is made can raise.
ShotFaults == {F \in SUBSET ShotCalls : F \subseteq Executed(F)}

\* One fault set for each response of take_screenshot: the image, the
\* probe's 500, the 500 of line 351, the 500 of 235-237.
ShotFaultsByOutcome ==
    {{}, {"probe"}, {"cap1", "cap2", "cap4"}, {"write"}}

\* Lines 203-237, with the faults drawn from Fs.
Screenshot(p, Fs) ==
    /\ pc[p] = "csG"
    /\ Release
    /\ UNCHANGED <<driver, alive, launched, strays, handles, cur, nextTab>>
    /\ \E F \in Fs, page \in PageSizes :
        LET shot == Capture(F, winSize, page) IN
        /\ CtxOK \/ "probe" \in F
        /\ IF "probe" \in F
           THEN \* 209-211, passed on by 233-234
                /\ winSize' = winSize
                /\ ReturnOf(p, "screenshot", "ConnFailed",
                            ExceptHTTPFirst("ConnFailed"), "none", F, <<>>, <<>>)
           ELSE IF wait_for_page_load_safely(F) # "done"
           THEN \* line 214 raises: 235-237
                /\ winSize' = winSize
                /\ ReturnOf(p, "screenshot", "DriverError",
                            ExceptHTTPFirst("DriverError"), "none", F, <<>>, <<>>)
           ELSE /\ winSize' = shot.size
                /\ IF shot.img = "none"
                   THEN \* line 351, passed on by 233-234
                        ReturnOf(p, "screenshot", "CaptureFailed",
                                 ExceptHTTPFirst("CaptureFailed"), "none", F,
                                 <<>>, <<>>)
                   ELSE IF "write" \in F
                        THEN \* 235-237
                             ReturnOf(p, "screenshot", "IOError",
                                      ExceptHTTPFirst("IOError"), "none", F,
                                      <<>>, <<>>)
                   ELSE ReturnOf(p, "screenshot", "none", "OK", shot.img, F,
                                 <<>>, <<>>)

\* take_screenshot among concurrent callers: one run for each response.
\* No guard reads winSize, so the runs that leave the window resized add
\* nothing to what concurrent callers can do; ScreenshotRun has them.
ScreenshotBody(p) == Screenshot(p, ShotFaultsByOutcome)

\* take_screenshot with every combination of faults.
ScreenshotRun(p) == Screenshot(p, ShotFaults)

\* ------------------------------------------------------------------ Next
Next ==
    \E p \in Procs :
        \/ CallLocked(p)
        \/ CallMissingParam(p)
        \/ CallNotRunning(p)
        \/ CallGuarded(p)
        \/ Acquire(p)
        \/ InitNoop(p)
        \/ InitLaunch(p)
        \/ InitLaunchFails(p)
        \/ InitReady(p)
        \/ InitConfigureFails(p)
        \/ ShutdownNoop(p)
        \/ ShutdownQuit(p)
        \/ ShutdownQuitRaises(p)
        \/ StatusBody(p)
        \/ SwitchTabBody(p)
        \/ CloseTabBody(p)
        \/ ListTabsBody(p)
        \/ OpenTabBody(p)
        \/ ExecuteScriptBody(p)
        \/ NavigateBody(p)
        \/ ScreenshotBody(p)

Spec == Init /\ [][Next]_vars

\* ---------------------------------------------------------------- FairSpec
\* The steps a caller takes inside a `with driver_lock:` block.
InBlock(p) ==
    \/ InitNoop(p)
    \/ InitLaunch(p)
    \/ InitLaunchFails(p)
    \/ InitReady(p)
    \/ InitConfigureFails(p)
    \/ ShutdownNoop(p)
    \/ ShutdownQuit(p)
    \/ ShutdownQuitRaises(p)
    \/ StatusBody(p)
    \/ SwitchTabBody(p)
    \/ CloseTabBody(p)
    \/ ListTabsBody(p)
    \/ OpenTabBody(p)
    \/ ExecuteScriptBody(p)
    \/ NavigateBody(p)
    \/ ScreenshotBody(p)

\* Every driver call returns or raises (the driver's timeouts of lines
\* 165-166 and the bounded waits), so a caller inside a block takes its
\* next step; and the scheduler is fair to the callers blocked on the
\* lock: one that finds the lock free again and again gets it.
Fairness ==
    \A p \in Procs : WF_vars(InBlock(p)) /\ SF_vars(Acquire(p))

FairSpec == Spec /\ Fairness

\* ---------------------------------------------------------------- SeqSpec
\* The handlers as the event loop runs them: they are `async def` without
\* an `await`, so a request runs from its first line to its response before
\* the next one starts.  With the interleavings gone, every combination of
\* faults and every address is drawn.
OneAtATime(p) == \A q \in Procs \ {p} : pc[q] = "idle"

SeqNext ==
    \E p \in Procs :
        \/ OneAtATime(p) /\ CallLocked(p)
        \/ OneAtATime(p) /\ CallMissingParam(p)
        \/ OneAtATime(p) /\ CallNotRunning(p)
        \/ OneAtATime(p) /\ CallGuarded(p)
        \/ OneAtATime(p) /\ Acquire(p)
        \/ OneAtATime(p) /\ InitNoop(p)
        \/ OneAtATime(p) /\ InitLaunch(p)
        \/ OneAtATime(p) /\ InitLaunchFails(p)
        \/ OneAtATime(p) /\ InitReady(p)
        \/ OneAtATime(p) /\ InitConfigureFails(p)
        \/ OneAtATime(p) /\ ShutdownNoop(p)
        \/ OneAtATime(p) /\ ShutdownQuit(p)
        \/ OneAtATime(p) /\ ShutdownQuitRaises(p)
        \/ OneAtATime(p) /\ StatusBody(p)
        \/ OneAtATime(p) /\ SwitchTabBody(p)
        \/ OneAtATime(p) /\ CloseTabBody(p)
        \/ OneAtATime(p) /\ ListTabsBody(p)
        \/ OneAtATime(p) /\ OpenTabBody(p)
        \/ OneAtATime(p) /\ ExecuteScriptBody(p)
        \/ OneAtATime(p) /\ NavigateRun(p)
        \/ OneAtATime(p) /\ ScreenshotRun(p)

SeqSpec == Init /\ [][SeqNext]_vars

\* ================================================================ claims
\* The state a return left behind is the state it started in.
Unchanged == Snap = last.pre

\* The browser answered commands when the returning step started.
PreLive == last.pre.driver # None /\ last.pre.driver \in last.pre.alive

\* The step that returned ran inside `with driver_lock:`.
InLock == last.at \in {"csL", "csG", "init2"}

\* C1: mutual exclusion.  At most one caller is inside a `with driver_lock:`
\* block (init_driver, the shutdown block or any handler), and the lock is
\* held whenever one is.
C1_MutualExclusion ==
    /\ Cardinality({p \in Procs : InCS(p)}) <= 1
    /\ (\E p \in Procs : InCS(p)) => locked

\* C1 witness: one caller is between the two halves of init_driver, holding
\* the lock, while another has passed its test and waits for the lock.
C1_Witness ==
    \E p, q \in Procs : pc[p] = "init2" /\ pc[q] = "waitG" /\ locked

\* C2 as stated: every screenshot, navigate, openTab, listTabs, switchTab,
\* closeTab or executeScript request, whatever its input, called while no
\* handle exists fails with NotRunning and changes nothing.
C2_Original ==
    (last.at = "idle" /\ last.op \in GuardedOps /\ last.pre.driver = None)
        => (last.kind = "NotRunning" /\ Unchanged)

\* A request with an empty required argument: switch_tab without a handle,
\* execute_script without a script.
EmptyArgument == last.op \in {"switch", "script"} /\ last.arg = 0

C2_Returns ==
    (last.at = "idle" /\ last.op \in GuardedOps) =>
        /\ Unchanged
        /\ Status(last.kind) \in {400, 422}
        /\ EmptyArgument => last.kind = "MissingParam"
        /\ (~EmptyArgument /\ last.pre.driver = None) => last.kind = "NotRunning"
        /\ last.kind = "NotRunning" => last.pre.driver = None

C2_NoEntry ==
    \A p \in Procs :
        (pc[p] = "idle" /\ driver = None) => pc'[p] \in {"idle", "waitL"}

\* C2 amended: a request whose required argument is present (switchTab: a
\* handle, executeScript: a script; the others have none), called while no
\* handle exists, fails with NotRunning (422); switchTab without a handle
\* and executeScript without a script fail with the missing-argument failure
\* (400) instead.  Either way nothing changes, and no such caller goes on to
\* the lock and the driver.
C2_NotRunning == []C2_Returns /\ [][C2_NoEntry]_vars

\* C2 witness: closeTab with a handle returned NotRunning with no driver.
C2_Witness ==
    /\ last.op = "close" /\ last.arg # 0
    /\ last.kind = "NotRunning"
    /\ driver = None

\* C3: switchTab with a handle that is not open, on a running session,
\* fails with TabNotFound (404), not with the generic 500, and the current
\* tab is unchanged.
C3_TabNotFound ==
    (last.op = "switch" /\ PreLive /\ last.raised = "TabNotFound") =>
        /\ last.kind = "TabNotFound"
        /\ Status(last.kind) = 404
        /\ cur = last.pre.cur

\* C4: closeTab with the handle omitted or naming the only open tab, on a
\* session with exactly one open tab (and no driver error), fails with
\* LastTabError (400), and the open tabs and the current tab are unchanged.
C4_LastTab ==
    (/\ last.op = "close" /\ InLock /\ PreLive
     /\ Len(last.pre.handles) = 1
     /\ last.pre.cur = last.pre.handles[1]
     /\ last.arg \in {0, last.pre.handles[1]}
     /\ last.raised # "DriverError") =>
        /\ last.kind = "LastTabError"
        /\ handles = last.pre.handles
        /\ cur = last.pre.cur

\* The tab a closeTab request named: the one given, else the current one.
Closed == IF last.arg # 0 THEN last.arg ELSE last.pre.cur

\* C5: a successful closeTab(h) ran on at least two open tabs with h open;
\* afterwards the open set is the previous one minus h, the count reported
\* is the previous count minus one, and the current tab is the first tab,
\* in enumeration order, of those that remain.
C5_CloseTab ==
    (last.op = "close" /\ last.kind = "OK") =>
        /\ Len(last.pre.handles) >= 2
        /\ Closed \in Range(last.pre.handles)
        /\ Range(handles) = Range(last.pre.handles) \ {Closed}
        /\ Len(handles) = Len(last.pre.handles) - 1
        /\ last.ret = Len(last.pre.handles) - 1
        /\ cur \in Range(handles)
        /\ cur = last.pre.handles[IF last.pre.handles[1] = Closed THEN 2 ELSE 1]

\* C5 witness: with three tabs open, a tab that was neither current nor the
\* first one was closed by handle.
C5_Witness ==
    /\ last.op = "close" /\ last.kind = "OK"
    /\ Len(last.pre.handles) = 3
    /\ last.arg # 0
    /\ last.arg # last.pre.cur
    /\ last.arg # last.pre.handles[1]

\* C6: whenever the browser runs and nobody holds the lock, some tab is open
\* and the current tab is one of the open tabs.
C6_CurrentIsOpen ==
    (DriverLive /\ ~locked) => (handles # <<>> /\ cur \in Range(handles))

\* C7: listTabs leaves the current tab as it found it, on every exit path.
C7_ListKeepsCurrent ==
    (last.op = "list" /\ InLock /\ PreLive) => cur = last.pre.cur

\* C8: init_driver with a handle in place launches nothing, kills nothing
\* and leaves the handle alone; and however many callers start, at most one
\* browser process of this program runs.
C8_StartIdempotent ==
    /\ (last.op = "start" /\ last.at = "csL" /\ last.pre.driver # None) =>
          (last.kind = "OK" /\ Unchanged)
    /\ Cardinality(alive) <= 1

\* C8 witness: a start returned as a no-op on a running browser that an
\* earlier start launched.
C8_Witness ==
    /\ last.op = "start" /\ last.at = "csL"
    /\ last.pre.driver # None
    /\ DriverLive

\* C9: a start that fails raises, leaves the handle None and leaves no
\* process of its own running.
C9_StartFailure ==
    (last.op = "start" /\ last.kind # "OK") =>
        /\ last.kind = "LaunchFailed"
        /\ driver = None
        /\ alive = last.pre.alive \ {last.pre.driver}
        /\ alive = {}
        /\ ~locked

\* C9 witness: the launch succeeded and a later step of start failed.
C9_Witness ==
    /\ last.op = "start" /\ last.at = "init2"
    /\ last.kind = "LaunchFailed"
    /\ last.pre.driver \in last.pre.alive

\* C10: the shutdown block does nothing without a handle; with one, when it
\* runs to its end the process is terminated and the handle is None.  It runs
\* with the lock held, so no other caller is inside the lock when the process
\* ends, and the lock is free once it has left, by return or by exception.
C10_Shutdown ==
    (last.op = "stop") =>
        /\ last.at = "csL"
        /\ ~locked
        /\ \A q \in Procs : ~InCS(q)
        /\ last.pre.driver = None => (last.kind = "OK" /\ Unchanged)
        /\ (last.pre.driver # None /\ last.kind = "OK") =>
              (driver = None /\ last.pre.driver \notin alive)

\* C10 witness: shutdown ended a running browser while another caller, its
\* test passed, was waiting for the lock.
C10_Witness ==
    /\ last.op = "stop" /\ last.kind = "OK"
    /\ last.pre.driver \in last.pre.alive
    /\ \E q \in Procs : pc[q] = "waitG"

\* ------------------------------------------------------------------ C11
\* A screenshot returned from inside the lock.
ShotReturned == last.op = "screenshot" /\ InLock

\* Every capture the handler tried raised.
NoCaptureWorks == {"cap1", "cap2", "cap4"} \subseteq last.faults

\* C11 as the specification states it: whenever the viewport capture works,
\* take_screenshot answers with a non-empty image.
C11_Original ==
    (ShotReturned /\ PreLive /\ ~NoCaptureWorks)
        => (last.kind = "OK" /\ last.img # "none")

\* C11: on a running browser whose liveness probe (line 208) answers, whose
\* viewport can be captured by at least one of the captures the handler
\* tries and whose image file can be written, take_screenshot answers 200
\* with a non-empty image; when the first capture raised and the backup
\* capture worked, a failure to read the page's dimensions or to resize the
\* window makes it answer with the backup capture.
C11_Screenshot ==
    (ShotReturned /\ ~NoCaptureWorks /\ {"probe", "write"} \cap last.faults = {})
        => /\ last.kind = "OK"
           /\ last.img # "none"
           /\ ({"introspect", "resize"} \cap last.faults # {}
                  => last.img = "backup")

\* C11 witness: the first capture raised, the backup was taken, resizing
\* the window raised, and the response carries the backup.
C11_Witness ==
    /\ ShotReturned /\ last.kind = "OK" /\ last.img = "backup"
    /\ "resize" \in last.faults

\* ------------------------------------------------------------------ C12
\* set_window_size(total_width, total_height) of line 323 was called and
\* returned.
Resized ==
    /\ ShotReturned /\ "cap1" \in last.faults
    /\ {"probe", "cap2", "introspect", "resize"} \cap last.faults = {}

\* C12 as the specification states it: once the window was resized (or the
\* resize was tried), it has its old size when take_screenshot returns.
C12_Original ==
    (ShotReturned /\ (Resized \/ "resize" \in last.faults))
        => winSize = last.pre.winSize

\* C12: when take_screenshot returns, by a response or by a failure, the
\* window has the size it had when the request started, unless the
\* restoring set_window_size of the handler (line 337) raised too; that
\* covers a resize that raises, a capture that raises after the resize, a
\* restoring call (line 330) that raises once, and success.
C12_WindowRestored ==
    (ShotReturned /\ "restore2" \notin last.faults)
        => winSize = last.pre.winSize

\* C12 witness: the window was resized, the capture of the resized window
\* raised, and the handler has put the old size back.
C12_Witness ==
    /\ Resized /\ "cap3" \in last.faults /\ "restore2" \notin last.faults
    /\ winSize = last.pre.winSize
    /\ winSize = DefaultSize

\* ------------------------------------------------------------------ C13
\* C13 as the specification states it: take_screenshot fails exactly when
\* the viewport cannot be captured.
C13_Original ==
    (ShotReturned /\ PreLive) => (last.kind # "OK" <=> NoCaptureWorks)

\* C13: take_screenshot fails exactly when the liveness probe raises (the
\* 500 of line 211), when every capture it tries raises (lines 218, 302 and
\* 348; the 500 of line 351), or when the image file cannot be written (the
\* 500 of line 237).  A readiness wait that times out or raises, a failure
\* to read the dimensions, to resize or to restore the window, and a first
\* capture that raises while a later one works never make it fail.
C13_FailsExactlyWhen ==
    ShotReturned =>
        /\ last.kind = "ConnFailed" <=> "probe" \in last.faults
        /\ last.kind = "CaptureFailed" <=> NoCaptureWorks
        /\ last.kind = "OperationFailed" <=> "write" \in last.faults
        /\ last.kind \in {"OK", "ConnFailed", "CaptureFailed", "OperationFailed"}

\* C13 witness: the readiness wait raised and every capture raised; the
\* response is the 500 of line 351.
C13_Witness ==
    /\ ShotReturned /\ PreLive /\ last.kind = "CaptureFailed"
    /\ "wait" \in last.faults /\ NoCaptureWorks

\* ------------------------------------------------------------------ C14
\* A navigate_to_url returned from inside the lock.
NavReturned == last.op = "navigate" /\ InLock

\* u is prefix followed by some suffix of u.
Prefixed(u, prefix) ==
    \E n \in 0..Len(u) : u = prefix \o SubSeq(u, Len(u) - n + 1, Len(u))

HasScheme(u) == Prefixed(u, Http) \/ Prefixed(u, Https)

\* C14: bare-host prefixing.  For an address u without 'http://' or
\* 'https://' in front, navigate_to_url hands driver.get the address
\* 'https://' + u, the very address it hands over for the request
\* 'https://' + u, and the response depends on nothing else of the request;
\* an address with one of the prefixes is handed over unchanged; format_url
\* applied to its own result changes nothing.
C14_BareHostPrefixing ==
    NavReturned =>
        /\ ~HasScheme(last.url) =>
             /\ last.target = Https \o last.url
             /\ last.target = format_url(Https \o last.url)
        /\ HasScheme(last.url) => last.target = last.url
        /\ format_url(last.target) = last.target
        /\ [raised |-> last.raised, kind |-> last.kind] = NavEnd(last.faults)

\* C14 witness: a request for the bare host "a" loaded https://a.
C14_Witness ==
    /\ NavReturned /\ last.kind = "OK"
    /\ last.url = <<"a">>
    /\ last.target = <<"h", "t", "t", "p", "s", ":", "/", "/", "a">>

\* ------------------------------------------------------------------ C15
\* The timeouts of driver.get and of the reads, and the timeouts and errors
\* of the two readiness waits.
SoftFaults == {"get_timeout", "read_timeout", "ready_timeout", "ready_error",
               "images_timeout", "images_error"}

\* C15: timeouts are not fatal to navigate_to_url.  When driver.get times
\* out, or a readiness wait (document ready, images loaded) times out or
\* raises while polling, and nothing else raises, the request ends in a
\* response with title and url and not in a failure.
C15_TimeoutsNotFatal ==
    (NavReturned /\ last.faults \subseteq SoftFaults) => last.kind = "OK"

\* C15 witness: the page load timed out and the response was returned from
\* the handler of lines 378-384.
C15_Witness ==
    /\ NavReturned /\ last.faults = {"get_timeout"}
    /\ last.raised = "Timeout" /\ last.kind = "OK"

\* ------------------------------------------------------------------ C16
\* C16: an open_new_tab that answers 200 has added one handle, which was
\* not open before, to the open windows and nothing else; that window is
\* the current one and its handle is the one the response carries.
C16_OpenTab ==
    (last.op = "open" /\ InLock /\ last.kind = "OK")
        => /\ Len(handles) = Len(last.pre.handles) + 1
           /\ Range(handles) = Range(last.pre.handles) \cup {cur}
           /\ cur \notin Range(last.pre.handles)
           /\ last.ret = cur

\* C16 witness: a third tab was opened next to two open ones.
C16_Witness ==
    /\ last.op = "open" /\ InLock /\ last.kind = "OK"
    /\ Len(last.pre.handles) = 2 /\ Len(handles) = 3
    /\ last.ret = cur /\ cur = handles[3]

\* ------------------------------------------------------------------ C17
\* C17: the lock is released on every way out of a `with driver_lock:`
\* block.  The state a caller leaves behind when it returns from inside
\* the block, with a response, with an HTTPException or with an error
\* nobody handles, has the lock free; and whenever no caller is inside a
\* block the lock is free.
C17_LockReleased ==
    /\ InLock => ~locked
    /\ (\A p \in Procs : ~InCS(p)) => ~locked

\* C17 witness: quit() raised in the shutdown block, the error left the
\* block unhandled, and the lock is free with nobody inside.
C17_Witness ==
    /\ last.op = "stop" /\ last.kind = "Unhandled" /\ InLock
    /\ ~locked
    /\ \A p \in Procs : ~InCS(p)

Waiting(p) == pc[p] \in {"waitL", "waitG"}

\* A caller inside a block does not ask for the lock again.
NoReentry == \A p \in Procs : InCS(p) => ~Waiting(p)'

\* C19: deadlock freedom.  With driver calls that return or raise and a
\* fair scheduler, every caller that asks for the lock gets it and finishes
\* its operation; and no caller asks for the lock while it holds it.
C19_DeadlockFree ==
    /\ \A p \in Procs : Waiting(p) ~> pc[p] = "idle"
    /\ [][NoReentry]_vars

\* C19 witness: a caller is blocked on the lock while another is inside its
\* block.
C19_Witness ==
    \E p, q \in Procs : pc[p] = "waitL" /\ pc[q] = "csG" /\ locked

\* ------------------------------------------------------------------ C20
\* C20: open_new_tab is all or nothing.  When it ends in a failure the open
\* windows and the current window are those of before the call.
C20_OpenTabAllOrNothing ==
    (last.op = "open" /\ InLock /\ last.kind # "OK")
        => (handles = last.pre.handles /\ cur = last.pre.cur)

====
